---- MODULE Spec2Model ----
(***************************************************************************)
(* The 1000 Hours Task Tracker (src/app.py): a Streamlit script that keeps *)
(* up to three task records in one Excel sheet.  Every user action is one  *)
(* run of the script: load the sheet, handle the clicked button, rewrite   *)
(* the whole sheet.                                                        *)
(*                                                                         *)
(* A text is a sequence of one-character strings, so that str.strip() and  *)
(* the reader's missing-value markers can be computed.  An amount typed    *)
(* into a number_input is a whole part plus quarters (the widget's step).  *)
(*                                                                         *)
(* minutes_spent is an int64 column.  An integer n is written              *)
(* [hi |-> h, lo |-> l] for n = h * 2^63 + l with l small: this holds the  *)
(* small numbers (h = 0), the numbers just below 2^63 (h = 1, l < 0) and   *)
(* the numbers just above -2^63 (h = -1, l >= 0) exactly.                  *)
(***************************************************************************)
EXTENDS Integers, Sequences, FiniteSets, TLC

\* ---------------------------------------------------------------- constants
MAX_TASKS == 3

\* step=0.25 of the amount inputs: an amount is whole + frac4 / AmountDen
AmountDen == 4

\* spacing of the floats between 2^62 and 2^63: the largest float below 2^63
\* is 2^63 - 1024
FloatGap == 1024

\* ------------------------------------------------------------------- bounds
\* script runs explored (each run reads the clock once)
MaxRuns == 4

\* the clock up to which two sessions run handlers (starting at 1)
MaxConcRuns == 3

\* texts typed into "Task name"
NameInputs ==
    { <<" ", " ">>,
      <<" ", "a", " ">>,
      <<"N", "A", " ">> }

\* values of "Goal (hours)" (min_value=1, max_value=10000, value=1000)
GoalHoursInputs == {10, 1000}

Units == {"hours", "minutes"}

Sessions == {1, 2}

\* ---------------------------------------------------------------- messages
MsgNone == "none"
MsgCapacity == "You already have 3 tasks. Delete one before creating a new task."
MsgInvalidName == "Please enter a task name."
MsgCreated == "Created task"
MsgAddNonPositive == "Enter a positive amount to add."
MsgSubNonPositive == "Enter a positive amount to subtract."
MsgAdded == "Added"
MsgSubtracted == "Subtracted"
MsgReset == "Reset complete."
MsgDeleted == "Task deleted."

VARIABLES
    file,       \* rows of sheet "tasks" of tasks.xlsx, as written by to_excel
    clock,      \* datetime.now(), in runs
    msg,        \* the st.warning / st.error / st.success of the last run
    req,        \* the widget values and the clicked button of the last run
    assigned,   \* history: the task_ids given out by create, in order
    pc,         \* per session: "idle", or "loaded" between line 120 and the save
    loaded,     \* per session: the frame `tasks` read at line 120
    lost        \* history: a save from a stale load dropped another session's save

vars == <<file, clock, msg, req, assigned, pc, loaded, lost>>

\* ------------------------------------------------------------ pure helpers
Whitespace == {" "}

RECURSIVE lstrip(_)
lstrip(s) ==
    IF s = <<>> THEN <<>>
    ELSE IF Head(s) \in Whitespace THEN lstrip(Tail(s))
    ELSE s

RECURSIVE rstrip(_)
rstrip(s) ==
    IF s = <<>> THEN <<>>
    ELSE IF s[Len(s)] \in Whitespace THEN rstrip(SubSeq(s, 1, Len(s) - 1))
    ELSE s

\* str.strip()
strip(s) == rstrip(lstrip(s))

\* ---------------------------------------------------------------- integers
I64(n) == [hi |-> 0, lo |-> n]

wadd(a, b) == [hi |-> a.hi + b.hi, lo |-> a.lo + b.lo]

wsub(a, b) == [hi |-> a.hi - b.hi, lo |-> a.lo - b.lo]

wlt(a, b) == a.hi < b.hi \/ (a.hi = b.hi /\ a.lo < b.lo)

wle(a, b) == a = b \/ wlt(a, b)

wmin(a, b) == IF wlt(a, b) THEN a ELSE b

wmax(a, b) == IF wlt(a, b) THEN b ELSE a

\* -2^63 <= n < 2^63
FitsInt64(a) ==
    a.hi = 0 \/ (a.hi = 1 /\ a.lo < 0) \/ (a.hi = -1 /\ a.lo >= 0)

\* the int64 result of an addition or subtraction of int64 values: the sum
\* modulo 2^64
wrap64(a) ==
    IF a.hi % 2 = 0 THEN [hi |-> 0, lo |-> a.lo]
    ELSE IF a.lo < 0 THEN [hi |-> 1, lo |-> a.lo]
    ELSE [hi |-> -1, lo |-> a.lo]

\* the float whole + frac4 / AmountDen
Amount(whole, frac4) == [whole |-> whole, frac4 |-> frac4]

\* amounts typed: 0.5, 2.5, 30 and 9223372036854774784 (2^63 - 1024)
AmountInputs ==
    { Amount(I64(0), 2),
      Amount(I64(2), 2),
      Amount(I64(30), 0),
      Amount([hi |-> 1, lo |-> 0 - FloatGap], 0) }

\* Python's round() of n/d for n >= 0: to nearest, ties to even
round(n, d) ==
    LET fl == n \div d
        r == n % d
    IN  IF 2 * r < d THEN fl
        ELSE IF 2 * r > d THEN fl + 1
        ELSE IF fl % 2 = 0 THEN fl
        ELSE fl + 1

\* to_minutes(x, u): int(round(x * 60)) or int(round(x)), a Python int.
\* round(whole + f) is taken on the parity of whole plus f.
to_minutes(x, u) ==
    IF u = "hours"
    THEN [hi |-> x.whole.hi * 60,
          lo |-> round((x.whole.lo * AmountDen + x.frac4) * 60, AmountDen)]
    ELSE LET par == x.whole.lo % 2
         IN  [hi |-> x.whole.hi,
              lo |-> x.whole.lo - par + round(par * AmountDen + x.frac4, AmountDen)]

\* the amounts and units whose delta is an int64: beyond that numpy raises
\* OverflowError or leaves int64, depending on its version
AmountUnitInputs ==
    {au \in AmountInputs \X Units : FitsInt64(to_minutes(au[1], au[2]))}

\* the texts pandas.read_excel reads as missing (keep_default_na=True)
STR_NA_VALUES ==
    { <<>>,
      <<"N", "A">>,
      <<"N", "/", "A">>,
      <<"n", "/", "a">>,
      <<"#", "N", "/", "A">>,
      <<"#", "N", "A">>,
      <<"<", "N", "A", ">">>,
      <<"N", "U", "L", "L">>,
      <<"n", "u", "l", "l">>,
      <<"N", "a", "N">>,
      <<"n", "a", "n">>,
      <<"-", "N", "a", "N">>,
      <<"-", "n", "a", "n">>,
      <<"N", "o", "n", "e">> }

\* one row read back: a missing task_name is filled with ""; the numeric
\* cells are never missing in a sheet this program wrote
load_row(r) ==
    [r EXCEPT !.task_name = IF r.task_name \in STR_NA_VALUES THEN <<>> ELSE r.task_name]

load_tasks(f) == [i \in 1..Len(f) |-> load_row(f[i])]

\* to_excel writes the frame cell by cell
save_tasks(df) == df

Ids(df) == {df[i].task_id : i \in 1..Len(df)}

Max(S) == CHOOSE m \in S : \A x \in S : x <= m

Min2(a, b) == IF a < b THEN a ELSE b

\* DataFrame.head(n)
head(df, n) == SubSeq(df, 1, Min2(n, Len(df)))

\* the rows shown as panels (line 179)
shown(tasks) == head(tasks, MAX_TASKS)

Outcome(df, saved, m) == [df |-> df, saved |-> saved, msg |-> m]

\* ------------------------------------------------------------ create task
\* faulty variant: the capacity test lets a fourth record in
can_create_inclusive(tasks) == Len(tasks) <= MAX_TASKS

can_create(tasks) == Len(tasks) < MAX_TASKS

\* faulty variant: the next id is counted from the number of records
next_id_count(tasks) == Len(tasks) + 1

next_id(tasks) == IF tasks = <<>> THEN 1 ELSE Max(Ids(tasks)) + 1

new_row(tasks, name_clean, goal_hours, now) ==
    [task_id |-> next_id(tasks),
     task_name |-> name_clean,
     goal_minutes |-> goal_hours * 60,
     minutes_spent |-> I64(0),
     created_at |-> now,
     updated_at |-> now]

\* the "Create a new task" expander: the button is disabled at capacity
create_clicked(tasks, new_name, goal_hours, now) ==
    IF ~can_create(tasks) THEN Outcome(tasks, FALSE, MsgCapacity)
    ELSE IF strip(new_name) = <<>> THEN Outcome(tasks, FALSE, MsgInvalidName)
    ELSE Outcome(Append(tasks, new_row(tasks, strip(new_name), goal_hours, now)),
                 TRUE, MsgCreated)

\* --------------------------------------------------------- per-task panel
\* tasks.loc[tasks["task_id"] == task_id, ["minutes_spent", "updated_at"]] = ...
\* with `values` the new minutes_spent, row by row
set_spent(tasks, task_id, values, now) ==
    [i \in 1..Len(tasks) |->
        IF tasks[i].task_id = task_id
        THEN [tasks[i] EXCEPT !.minutes_spent = values[i],
                              !.updated_at = now]
        ELSE tasks[i]]

\* "Add time" of the panel of row idx
add_clicked(tasks, idx, amount, unit, now) ==
    LET view == shown(tasks)
        task_id == view[idx].task_id
        goal_min == view[idx].goal_minutes
        delta == to_minutes(amount, unit)
        summed == [i \in 1..Len(view) |-> wrap64(wadd(view[i].minutes_spent, delta))]
        capped == [i \in 1..Len(view) |-> wmin(summed[i], I64(goal_min))]
    IN  IF wle(delta, I64(0)) THEN Outcome(tasks, FALSE, MsgAddNonPositive)
        ELSE Outcome(set_spent(view, task_id, capped, now), TRUE, MsgAdded)

\* faulty variant: a delta of 0 is let through and saved
sub_clicked_zero_saved(tasks, idx, sub_amount, sub_unit, now) ==
    LET view == shown(tasks)
        task_id == view[idx].task_id
        delta == to_minutes(sub_amount, sub_unit)
        lowered == [i \in 1..Len(view) |-> wrap64(wsub(view[i].minutes_spent, delta))]
        floored == [i \in 1..Len(view) |-> wmax(lowered[i], I64(0))]
    IN  IF wlt(delta, I64(0)) THEN Outcome(tasks, FALSE, MsgSubNonPositive)
        ELSE Outcome(set_spent(view, task_id, floored, now), TRUE, MsgSubtracted)

\* "Subtract time" of the panel of row idx
sub_clicked(tasks, idx, sub_amount, sub_unit, now) ==
    LET view == shown(tasks)
        task_id == view[idx].task_id
        delta == to_minutes(sub_amount, sub_unit)
        lowered == [i \in 1..Len(view) |-> wrap64(wsub(view[i].minutes_spent, delta))]
        floored == [i \in 1..Len(view) |-> wmax(lowered[i], I64(0))]
    IN  IF wle(delta, I64(0)) THEN Outcome(tasks, FALSE, MsgSubNonPositive)
        ELSE Outcome(set_spent(view, task_id, floored, now), TRUE, MsgSubtracted)

\* "Reset to 0" of the panel of row idx
reset_clicked(tasks, idx, now) ==
    LET view == shown(tasks)
        zero == [i \in 1..Len(view) |-> I64(0)]
    IN  Outcome(set_spent(view, view[idx].task_id, zero, now), TRUE, MsgReset)

\* tasks[tasks["task_id"] != task_id]
without(df, task_id) ==
    SelectSeq(df, LAMBDA r : r.task_id # task_id)

\* "Delete task" of the panel of row idx
delete_clicked(tasks, idx) ==
    LET view == shown(tasks)
    IN  Outcome(without(view, view[idx].task_id), TRUE, MsgDeleted)

\* ----------------------------------------------------------------- requests
Request(op, idx, task_id, name, goal_hours, amount, unit, now) ==
    [op |-> op, idx |-> idx, task_id |-> task_id, name |-> name,
     goal_hours |-> goal_hours, amount |-> amount, unit |-> unit, now |-> now]

NoAmount == Amount(I64(0), 0)

NoRequest == Request("none", 0, 0, <<>>, 0, NoAmount, "hours", 0)

\* the handler a request runs, on the frame the run loaded
Handle(rq, tasks) ==
    CASE rq.op = "create" -> create_clicked(tasks, rq.name, rq.goal_hours, rq.now)
      [] rq.op = "add" -> add_clicked(tasks, rq.idx, rq.amount, rq.unit, rq.now)
      [] rq.op = "sub" -> sub_clicked(tasks, rq.idx, rq.amount, rq.unit, rq.now)
      [] rq.op = "reset" -> reset_clicked(tasks, rq.idx, rq.now)
      [] rq.op = "delete" -> delete_clicked(tasks, rq.idx)

\* the requests a user can make of a page rendered from `tasks`
CreateRequests(tasks, now) ==
    { Request("create", 0, 0, n, g, NoAmount, "hours", now) :
        n \in NameInputs, g \in GoalHoursInputs }

AddRequests(tasks, now) ==
    { Request("add", i, shown(tasks)[i].task_id, <<>>, 0, au[1], au[2], now) :
        i \in 1..Len(shown(tasks)), au \in AmountUnitInputs }

SubRequests(tasks, now) ==
    { Request("sub", i, shown(tasks)[i].task_id, <<>>, 0, au[1], au[2], now) :
        i \in 1..Len(shown(tasks)), au \in AmountUnitInputs }

ResetRequests(tasks, now) ==
    { Request("reset", i, shown(tasks)[i].task_id, <<>>, 0, NoAmount, "hours", now) :
        i \in 1..Len(shown(tasks)) }

DeleteRequests(tasks, now) ==
    { Request("delete", i, shown(tasks)[i].task_id, <<>>, 0, NoAmount, "hours", now) :
        i \in 1..Len(shown(tasks)) }

\* ------------------------------------------------------------------ actions
Init ==
    /\ file = <<>>
    /\ clock = 0
    /\ msg = MsgNone
    /\ req = NoRequest
    /\ assigned = <<>>
    /\ pc = [s \in Sessions |-> "idle"]
    /\ loaded = [s \in Sessions |-> <<>>]
    /\ lost = FALSE

\* the effect of one handler on the sheet, the report and the history
Commit(rq, tasks) ==
    LET out == Handle(rq, tasks)
    IN  /\ file' = IF out.saved THEN save_tasks(out.df) ELSE file
        /\ msg' = out.msg
        /\ req' = rq
        /\ clock' = rq.now
        /\ assigned' = IF rq.op = "create" /\ out.saved
                       THEN Append(assigned, out.df[Len(out.df)].task_id)
                       ELSE assigned

\* one whole run of the script by a single user: load, handle, save
Run(rq) ==
    /\ Commit(rq, load_tasks(file))
    /\ UNCHANGED <<pc, loaded, lost>>

CreateRun ==
    /\ clock < MaxRuns
    /\ \E rq \in CreateRequests(load_tasks(file), clock + 1) : Run(rq)

AddRun ==
    /\ clock < MaxRuns
    /\ \E rq \in AddRequests(load_tasks(file), clock + 1) : Run(rq)

SubRun ==
    /\ clock < MaxRuns
    /\ \E rq \in SubRequests(load_tasks(file), clock + 1) : Run(rq)

ResetRun ==
    /\ clock < MaxRuns
    /\ \E rq \in ResetRequests(load_tasks(file), clock + 1) : Run(rq)

DeleteRun ==
    /\ clock < MaxRuns
    /\ \E rq \in DeleteRequests(load_tasks(file), clock + 1) : Run(rq)

Next == CreateRun \/ AddRun \/ SubRun \/ ResetRun \/ DeleteRun

Spec == Init /\ [][Next]_vars

\* ------------------------------------------------------ concurrent sessions
\* the panels of `tasks` whose buttons carry the key of task_id
Locate(tasks, task_id) ==
    {i \in 1..Len(shown(tasks)) : shown(tasks)[i].task_id = task_id}

\* what the request would have written had its run loaded `fresh`
Serial(rq, fresh) ==
    IF rq.op = "create" THEN Handle(rq, fresh).df
    ELSE IF Locate(fresh, rq.task_id) = {} THEN fresh
    ELSE Handle([rq EXCEPT !.idx = CHOOSE i \in Locate(fresh, rq.task_id) : TRUE], fresh).df

\* faulty variant: the handlers work on the sheet as it is when they save
Base_reloaded(s) ==
    IF Len(load_tasks(file)) = Len(loaded[s]) THEN load_tasks(file) ELSE loaded[s]

\* the frame the handlers of session s work on: the load of line 120
Base(s) == loaded[s]

\* line 120 of a run of session s
SessionLoad(s) ==
    /\ pc[s] = "idle"
    /\ clock < MaxConcRuns
    /\ loaded' = [loaded EXCEPT ![s] = load_tasks(file)]
    /\ pc' = [pc EXCEPT ![s] = "loaded"]
    /\ UNCHANGED <<file, clock, msg, req, assigned, lost>>

\* the rest of the run: the handler and its save, with no look at the sheet
SessionRun(s, rq) ==
    /\ Commit(rq, Base(s))
    /\ pc' = [pc EXCEPT ![s] = "idle"]
    /\ loaded' = [loaded EXCEPT ![s] = <<>>]
    /\ lost' = (lost \/ (/\ Handle(rq, Base(s)).saved
                         /\ Handle(rq, Base(s)).df # Serial(rq, load_tasks(file))))

SessionCreate(s) ==
    /\ pc[s] = "loaded"
    /\ \E rq \in CreateRequests(loaded[s], clock + 1) : SessionRun(s, rq)

SessionAdd(s) ==
    /\ pc[s] = "loaded"
    /\ \E rq \in AddRequests(loaded[s], clock + 1) : SessionRun(s, rq)

SessionSub(s) ==
    /\ pc[s] = "loaded"
    /\ \E rq \in SubRequests(loaded[s], clock + 1) : SessionRun(s, rq)

SessionReset(s) ==
    /\ pc[s] = "loaded"
    /\ \E rq \in ResetRequests(loaded[s], clock + 1) : SessionRun(s, rq)

SessionDelete(s) ==
    /\ pc[s] = "loaded"
    /\ \E rq \in DeleteRequests(loaded[s], clock + 1) : SessionRun(s, rq)

NextConc ==
    \E s \in Sessions :
        \/ SessionLoad(s)
        \/ SessionCreate(s)
        \/ SessionAdd(s)
        \/ SessionSub(s)
        \/ SessionReset(s)
        \/ SessionDelete(s)

\* two sessions open on a store that holds one task, created at clock 1
InitConc ==
    LET rq == Request("create", 0, 0, <<" ", "a", " ">>, 10, NoAmount, "hours", 1)
        out == Handle(rq, load_tasks(<<>>))
    IN  /\ file = save_tasks(out.df)
        /\ clock = 1
        /\ msg = out.msg
        /\ req = rq
        /\ assigned = <<1>>
        /\ pc = [s \in Sessions |-> "idle"]
        /\ loaded = [s \in Sessions |-> <<>>]
        /\ lost = FALSE

SpecConc == InitConc /\ [][NextConc]_vars

\* ------------------------------------------------------------------ claims
\* list(): the sheet as a run reads and shows it (lines 120 and 179)
list_tasks(f) == shown(load_tasks(f))

\* a script run happened in this step
Ran == clock' # clock

Rows(f) == 1..Len(f)

RowsOf(f, task_id) == {i \in Rows(f) : f[i].task_id = task_id}

\* clamp over the integers
clamp(x, lo, hi) == wmax(lo, wmin(x, hi))

Created == Ran /\ req'.op = "create" /\ msg' = MsgCreated

\* C1: every persisted record has 0 <= minutes_spent <= goal_minutes, in every
\* state reachable from the empty store, whatever the deltas.
SpentWithinGoal ==
    \A i \in Rows(file) :
        /\ wle(I64(0), file[i].minutes_spent)
        /\ wle(file[i].minutes_spent, I64(file[i].goal_minutes))

\* C2: the persisted store never holds more than 3 records.
AtMostThreeRecords == Len(file) <= MAX_TASKS

\* the third record has just been created
StoreFilled == Len(file) = MAX_TASKS /\ req.op = "create" /\ msg = MsgCreated

\* C3: a create at capacity, a create with a blank trimmed name and an add or
\* subtract whose converted delta is <= 0 are reported and leave the whole
\* persisted collection unchanged.
RejectedIsNoOp ==
    [][Ran =>
        /\ (req'.op = "create" /\ Len(file) >= MAX_TASKS)
              => (file' = file /\ msg' = MsgCapacity)
        /\ (req'.op = "create" /\ Len(file) < MAX_TASKS /\ strip(req'.name) = <<>>)
              => (file' = file /\ msg' = MsgInvalidName)
        /\ (req'.op = "add" /\ wle(to_minutes(req'.amount, req'.unit), I64(0)))
              => (file' = file /\ msg' = MsgAddNonPositive)
        /\ (req'.op = "sub" /\ wle(to_minutes(req'.amount, req'.unit), I64(0)))
              => (file' = file /\ msg' = MsgSubNonPositive)]_vars

\* a subtract of a positive amount that converts to 0 minutes was turned down
\* on a store that holds records
RejectedSubtract ==
    /\ msg = MsgSubNonPositive
    /\ req.op = "sub"
    /\ req.amount = Amount(I64(0), 2)
    /\ file # <<>>

\* C4 (as claimed): the task_id of a new record differs from every task_id
\* that was ever assigned before.
IdNeverReused ==
    [][Created =>
        \A k \in 1..Len(assigned) : assigned[k] # assigned'[Len(assigned')]]_vars

\* C4 (amended): the task_id of a new record is the largest task_id now in the
\* store plus 1 (1 for an empty store), so it differs from the ids now in the
\* store; an id whose record was deleted can be assigned again.
NewIdAboveCurrent ==
    [][Created =>
        LET id == file'[Len(file')].task_id
        IN  /\ id \notin Ids(file)
            /\ id = IF file = <<>> THEN 1 ELSE Max(Ids(file)) + 1]_vars

\* the id of a deleted record was assigned a second time
IdReused ==
    /\ req.op = "create"
    /\ msg = MsgCreated
    /\ \E j \in 1..Len(assigned) : \E k \in 1..Len(assigned) :
          j < k /\ assigned[j] = assigned[k]

\* C5: the task_ids in the store are pairwise distinct and each is >= 1.
IdsDistinctPositive ==
    /\ \A i \in Rows(file) : \A j \in Rows(file) :
          i # j => file[i].task_id # file[j].task_id
    /\ \A i \in Rows(file) : file[i].task_id >= 1

\* a record created after the first one was deleted, beside an older one
IdsAfterDelete ==
    /\ req.op = "create"
    /\ msg = MsgCreated
    /\ Len(file) = 2
    /\ file[1].task_id = 2
    /\ file[2].task_id = 3

\* C6: delete removes exactly the record with the task_id and leaves every
\* other record, field by field and in order, unchanged.
DeleteRemovesOnlyTarget ==
    [][(Ran /\ req'.op = "delete") => file' = without(file, req'.task_id)]_vars

\* C7: a successful create appends one record with the next id, the trimmed
\* name, goal_hours * 60, nothing spent and both timestamps now, leaves the
\* other records unchanged, and list() then contains that record.
CreateAppendsRecord ==
    [][(Ran /\ req'.op = "create" /\ Len(file) < MAX_TASKS /\ strip(req'.name) # <<>>) =>
        LET rec == [task_id |-> IF file = <<>> THEN 1 ELSE Max(Ids(file)) + 1,
                    task_name |-> strip(req'.name),
                    goal_minutes |-> req'.goal_hours * 60,
                    minutes_spent |-> I64(0),
                    created_at |-> req'.now,
                    updated_at |-> req'.now]
        IN  /\ file' = Append(file, rec)
            /\ \E i \in Rows(list_tasks(file')) : list_tasks(file')[i] = rec]_vars

\* C8: with a converted delta > 0, add sets minutes_spent to
\* clamp(minutes_spent + delta, 0, goal_minutes) and subtract sets it to
\* clamp(minutes_spent - delta, 0, goal_minutes).
AddSubtractClamp ==
    [][(Ran /\ req'.op \in {"add", "sub"}
            /\ wlt(I64(0), to_minutes(req'.amount, req'.unit))) =>
        LET delta == to_minutes(req'.amount, req'.unit)
            moved(spent) == IF req'.op = "add" THEN wadd(spent, delta)
                            ELSE wsub(spent, delta)
        IN  /\ Len(file') = Len(file)
            /\ RowsOf(file, req'.task_id) # {}
            /\ \A i \in RowsOf(file, req'.task_id) :
                  file'[i].minutes_spent =
                      clamp(moved(file[i].minutes_spent), I64(0),
                            I64(file[i].goal_minutes))]_vars

\* C9: a session that saves writes the rewrite of the frame it loaded, whatever
\* another session saved in between: the last writer wins.
LastWriterWins ==
    [][\A s \in Sessions :
          (Ran /\ pc[s] = "loaded" /\ pc'[s] = "idle" /\ file' # file)
              => file' = save_tasks(Handle(req', loaded[s]).df)]_vars

\* a save from a stale load has dropped what another session saved
LostUpdate == lost

\* C10: a successful add, subtract or reset rewrites only minutes_spent and
\* updated_at of the targeted record (reset to 0); every other field and
\* record, and the number and order of records, are unchanged.
MutationRewritesOnlySpent ==
    [][(Ran /\ msg' \in {MsgAdded, MsgSubtracted, MsgReset}) =>
        /\ Len(file') = Len(file)
        /\ \A i \in Rows(file) :
              IF file[i].task_id = req'.task_id
              THEN /\ file'[i] = [file[i] EXCEPT
                                     !.minutes_spent = file'[i].minutes_spent,
                                     !.updated_at = req'.now]
                   /\ (req'.op = "reset" => file'[i].minutes_spent = I64(0))
              ELSE file'[i] = file[i]]_vars

====
